---- MODULE Spec2Model ----
(***************************************************************************)
(* State-machine model of run_zxjukebox.py: argument parsing, the file     *)
(* scanner, list-only mode, the random playback loop, archive extraction   *)
(* into a scoped temporary directory and the invocation of tzxplay.        *)
(* Strings are sequences of one-character strings, so that lower(),        *)
(* find(), replace(), suffix and basename are computed as Python does.     *)
(***************************************************************************)
EXTENDS Integers, Sequences, FiniteSets, TLC

VARIABLES argv, fsys, args, pc, scanned, tzx_files, game, filename,
          tempdir, out, invocations, sleeps, iter, result, error, exitcode

vars == <<argv, fsys, args, pc, scanned, tzx_files, game, filename,
          tempdir, out, invocations, sleeps, iter, result, error, exitcode>>

(***************************************************************************)
(* Bounds                                                                  *)
(***************************************************************************)
\* number of loop iterations explored
MaxIter == 2
\* largest --gap value offered on the command line (smallest is -1)
MaxGap == 0

(***************************************************************************)
(* String helpers (Python str / pathlib / os.path semantics)               *)
(***************************************************************************)
Last(s) == s[Len(s)]

\* str.lower() on the alphabet the fixtures use
LowerChar(c) ==
    CASE c = "A" -> "a"
      [] c = "B" -> "b"
      [] c = "T" -> "t"
      [] c = "Z" -> "z"
      [] c = "X" -> "x"
      [] OTHER -> c

Lower(s) == [i \in 1..Len(s) |-> LowerChar(s[i])]

\* sub occurs in s at 0-based offset k
OccursAt(s, sub, k) ==
    /\ k + Len(sub) <= Len(s)
    /\ \A j \in 1..Len(sub) : s[k + j] = sub[j]

\* str.find(sub): lowest 0-based offset of sub in s, -1 when absent
Find(s, sub) ==
    LET hits == {k \in 0..Len(s) : OccursAt(s, sub, k)}
    IN  IF hits = {} THEN -1
        ELSE CHOOSE k \in hits : \A h \in hits : k <= h

\* str.replace(old, "", 1): remove the first occurrence of old, wherever it is
ReplaceFirst(s, old) ==
    LET k == Find(s, old)
    IN  IF k = -1 THEN s
        ELSE SubSeq(s, 1, k) \o SubSeq(s, k + Len(old) + 1, Len(s))

\* str.rfind("/") as a 1-based position, 0 when absent
LastSlash(s) ==
    LET hits == {i \in 1..Len(s) : s[i] = "/"}
    IN  IF hits = {} THEN 0
        ELSE CHOOSE i \in hits : \A h \in hits : h <= i

\* os.path.basename / PurePath.name
Basename(p) == SubSeq(p, LastSlash(p) + 1, Len(p))

\* PurePath.suffix: from the last dot of the name, unless that dot is the
\* first or the last character of the name
Suffix(p) ==
    LET name == Basename(p)
        dots == {i \in 1..Len(name) : name[i] = "."}
        i    == IF dots = {} THEN 0
                ELSE CHOOSE d \in dots : \A h \in dots : h <= d
    IN  IF 1 < i /\ i < Len(name) THEN SubSeq(name, i, Len(name)) ELSE <<>>

\* int(): optional minus sign followed by at least one decimal digit
Digits == <<"0", "1", "2", "3", "4", "5", "6", "7", "8", "9">>

DigitVal(c) == (CHOOSE i \in 1..10 : Digits[i] = c) - 1

IsDigit(c) == \E i \in 1..10 : Digits[i] = c

RECURSIVE NatVal(_)
NatVal(s) == IF s = <<>> THEN 0
             ELSE 10 * NatVal(SubSeq(s, 1, Len(s) - 1)) + DigitVal(Last(s))

IsInt(s) ==
    LET body == IF s # <<>> /\ s[1] = "-" THEN Tail(s) ELSE s
    IN  body # <<>> /\ \A i \in 1..Len(body) : IsDigit(body[i])

ParseInt(s) == IF s[1] = "-" THEN 0 - NatVal(Tail(s)) ELSE NatVal(s)

\* the decimal text of a one-digit integer n >= -9
IntText(n) == IF n < 0 THEN <<"-", Digits[1 - n]>> ELSE <<Digits[n + 1]>>

(***************************************************************************)
(* Fixture file system                                                     *)
(***************************************************************************)
Cwd == <<"/">>
\* the real games directory, and a symbolic link to it
RealRoot == <<"/", "p", "/", "d">>
LinkRoot == <<"/", "d">>
\* the directory tempfile.TemporaryDirectory() creates
TempDir == <<"/", "t">>

NoLink == <<>>

\* directory entries below the games directory, in scan order;
\* link is the target of a symbolic link, NoLink for a regular file
World ==
    << [rel |-> <<"/", "a", ".", "t", "z", "x">>, link |-> NoLink],
       [rel |-> <<"/", "s", "/", "b", ".", "z", "i", "p">>, link |-> NoLink],
       [rel |-> <<"/", "c", ".", "t", "z", "x">>,
        link |-> <<"/", "o", "/", "c", ".", "b", "i", "n">>],
       [rel |-> <<"/", "n", ".", "t", "x", "t">>, link |-> NoLink] >>

\* member lists an archive may hold
ZipMembers ==
    { <<>>,
      << <<"/", "r", ".", "t", "x", "t">> >>,
      << <<"/", "g", ".", "t", "z", "x">> >>,
      << <<"/", "g", ".", "t", "z", "x">>, <<"/", "b", ".", "t", "z", "x">> >> }

FolderArgs ==
    { RealRoot,
      <<"p", "/", "d", "/">>,
      LinkRoot,
      <<"/", "m">> }

MatchArgs == { <<>>, <<"A">>, <<"b">> }

GapArgs == {IntText(n) : n \in -1..MaxGap} \cup { <<"x">> }

\* what the archive of the fixture can be: unreadable, or one of the lists
ZipStates ==
    {[corrupt |-> TRUE, members |-> <<>>]}
        \cup {[corrupt |-> FALSE, members |-> m] : m \in ZipMembers}

\* the entries of World that exist in the fixture, in scan order
Present(keep) ==
    LET Test(f) == f.rel \in keep IN SelectSeq(World, Test)

RelNames == {World[i].rel : i \in 1..Len(World)}

IsAbs(p) == p # <<>> /\ p[1] = "/"

Join(a, b) == IF Last(a) = "/" THEN a \o b ELSE a \o <<"/">> \o b

\* os.path.normpath, for paths without ".", ".." or doubled separators:
\* drops trailing separators
RECURSIVE Normpath(_)
Normpath(p) == IF Len(p) > 1 /\ Last(p) = "/"
               THEN Normpath(SubSeq(p, 1, Len(p) - 1)) ELSE p

Abspath(p) == Normpath(IF IsAbs(p) THEN p ELSE Join(Cwd, p))

HasPrefix(s, pre) == Len(pre) <= Len(s) /\ SubSeq(s, 1, Len(pre)) = pre

\* Path.resolve(): follow the directory link, then a link at the file itself
Resolve(fs, p) ==
    LET q == IF p = LinkRoot \/ HasPrefix(p, LinkRoot \o <<"/">>)
             THEN RealRoot \o SubSeq(p, Len(LinkRoot) + 1, Len(p))
             ELSE p
        links == {i \in 1..Len(fs.files) :
                     fs.files[i].link # NoLink /\ RealRoot \o fs.files[i].rel = q}
    IN  IF links = {} THEN q ELSE fs.files[CHOOSE i \in links : TRUE].link

Exists(fs, p) == Resolve(fs, p) = RealRoot

\* Path(pathname).glob("**/*"): the paths below pathname, as spelled from it
Glob(fs, td, pathname) ==
    IF pathname = TempDir
    THEN [i \in 1..Len(td.files) |-> TempDir \o td.files[i]]
    ELSE IF Resolve(fs, pathname) = RealRoot
    THEN [i \in 1..Len(fs.files) |-> pathname \o fs.files[i].rel]
    ELSE <<>>

(***************************************************************************)
(* Program constants                                                       *)
(***************************************************************************)
\* class Filetype: the members the enumeration defines
Filetype == {"UNKNONW", "TZX", "ZIP"}

EXT_TZX == <<".", "t", "z", "x">>
EXT_ZIP == <<".", "z", "i", "p">>

TZXPLAY == <<"t", "z", "x", "p", "l", "a", "y">>
OPT_VERBOSE == <<"-", "-", "v", "e", "r", "b", "o", "s", "e">>
OPT_SINE == <<"-", "-", "s", "i", "n", "e">>
OPT_48K == <<"-", "-", "4", "8", "k">>
OPT_STOP == <<"-", "-", "s", "t", "o", "p">>

\* --gap default
DefaultGap == 5

\* --gap not given on the command line
NoGap == <<>>

\* values of argparse's Namespace before the command line is read
DefaultArgs ==
    [folder |-> <<>>, soft |-> FALSE, only48k |-> FALSE, all |-> FALSE,
     once |-> FALSE, noplay |-> FALSE, gap |-> DefaultGap, match |-> <<>>,
     list |-> FALSE]

NoTempDir == [exists |-> FALSE, files |-> <<>>]

(***************************************************************************)
(* Pure functions of the program                                           *)
(***************************************************************************)
\* get_tzx_from_path(pathname, match, include_zip)
get_tzx_from_path(fs, td, pathname, match, include_zip) ==
    LET extensions == {EXT_TZX} \cup (IF include_zip THEN {EXT_ZIP} ELSE {})
        pattern    == Lower(match)
        Keep(p)    == Suffix(p) \in extensions /\ Find(Lower(p), pattern) # -1
        kept       == SelectSeq(Glob(fs, td, pathname), Keep)
    IN  [i \in 1..Len(kept) |-> Resolve(fs, kept[i])]

\* attribute access Filetype.<name>: the member, or AttributeError
FiletypeMember(name) == IF name \in Filetype THEN name ELSE "AttributeError"

\* get_filetype(filename): a Filetype member, or the exception it raises
get_filetype(path) ==
    LET extension == Suffix(path)
    IN  IF extension = EXT_TZX THEN FiletypeMember("TZX")
        ELSE IF extension = EXT_ZIP THEN FiletypeMember("ZIP")
        ELSE FiletypeMember("UNKNOWN")

\* play_tzx_file with the test on args.all inverted
TzxplayArgs_StopInverted(file, a) ==
    LET v0 == <<TZXPLAY>>
        v1 == Append(v0, OPT_VERBOSE)
        v2 == IF a.soft THEN Append(v1, OPT_SINE) ELSE v1
        v3 == IF a.only48k THEN Append(v2, OPT_48K) ELSE v2
        v4 == IF a.all THEN Append(v3, OPT_STOP) ELSE v3
    IN  Append(v4, file)

\* the argument list play_tzx_file builds for subprocess.run
TzxplayArgs(file, a) ==
    LET v0 == <<TZXPLAY>>
        v1 == Append(v0, OPT_VERBOSE)
        v2 == IF a.soft THEN Append(v1, OPT_SINE) ELSE v1
        v3 == IF a.only48k THEN Append(v2, OPT_48K) ELSE v2
        v4 == IF ~a.all THEN Append(v3, OPT_STOP) ELSE v3
    IN  Append(v4, file)

\* folder = os.path.abspath(args.folder)
Folder == Abspath(args.folder)

\* the line "--list" prints for one catalog entry
ListLine(tzxfile) ==
    LET name == ReplaceFirst(tzxfile, Folder)
    IN  [kind |-> "entry", text |-> <<".">> \o name]

(***************************************************************************)
(* Initial state: the command line and the file system the process sees    *)
(***************************************************************************)
Init ==
    /\ \E fo \in FolderArgs, ga \in GapArgs \cup {NoGap}, ma \in MatchArgs,
          so \in BOOLEAN, k48 \in BOOLEAN, al \in BOOLEAN,
          on \in BOOLEAN, np \in BOOLEAN, li \in BOOLEAN :
          argv = [folder |-> fo, soft |-> so, only48k |-> k48, all |-> al,
                  once |-> on, noplay |-> np, gap |-> ga, match |-> ma,
                  list |-> li]
    /\ \E keep \in SUBSET RelNames, z \in ZipStates :
          /\ World[2].rel \notin keep => z = [corrupt |-> FALSE, members |-> <<>>]
          /\ fsys = [files |-> Present(keep), zip |-> z]
    /\ args = DefaultArgs
    /\ pc = "parse"
    /\ scanned = FALSE
    /\ tzx_files = <<>>
    /\ game = <<>>
    /\ filename = <<>>
    /\ tempdir = NoTempDir
    /\ out = <<>>
    /\ invocations = <<>>
    /\ sleeps = <<>>
    /\ iter = 0
    /\ result = "none"
    /\ error = "none"
    /\ exitcode = -1

\* an exception nobody catches ends the interpreter with status 1
Uncaught(exc) ==
    /\ pc' = "exited"
    /\ error' = exc
    /\ exitcode' = 1

(***************************************************************************)
(* main()                                                                  *)
(***************************************************************************)
\* parser.parse_args(): a --gap value that is not an integer is a usage error
ParseArgs ==
    /\ pc = "parse"
    /\ IF argv.gap # NoGap /\ ~IsInt(argv.gap)
       THEN /\ pc' = "exited"
            /\ error' = "usage"
            /\ exitcode' = 2
            /\ UNCHANGED args
       ELSE /\ args' = [argv EXCEPT !.gap = IF argv.gap = NoGap THEN DefaultGap
                                            ELSE ParseInt(argv.gap)]
            /\ pc' = "main"
            /\ UNCHANGED <<error, exitcode>>
    /\ UNCHANGED <<argv, fsys, scanned, tzx_files, game, filename, tempdir,
                   out, invocations, sleeps, iter, result>>

\* if not os.path.exists(folder): raise RuntimeError
CheckFolder ==
    /\ pc = "main"
    /\ IF ~Exists(fsys, Folder)
       THEN Uncaught("RuntimeError")
       ELSE pc' = "scan" /\ UNCHANGED <<error, exitcode>>
    /\ UNCHANGED <<argv, fsys, args, scanned, tzx_files, game, filename,
                   tempdir, out, invocations, sleeps, iter, result>>

\* the scan without the test for an empty catalog
ScanFolder_NoEmptyCheck ==
    /\ pc = "scan"
    /\ scanned' = TRUE
    /\ tzx_files' = get_tzx_from_path(fsys, tempdir, Folder, args.match, TRUE)
    /\ pc' = IF args.list THEN "list" ELSE "loop"
    /\ UNCHANGED <<argv, fsys, args, game, filename, tempdir, out,
                   invocations, sleeps, iter, result, error, exitcode>>

\* tzx_files = get_tzx_from_path(...); raise when empty; branch on --list
ScanFolder ==
    /\ pc = "scan"
    /\ scanned' = TRUE
    /\ tzx_files' = get_tzx_from_path(fsys, tempdir, Folder, args.match, TRUE)
    /\ IF tzx_files' = <<>>
       THEN Uncaught("RuntimeError")
       ELSE /\ pc' = IF args.list THEN "list" ELSE "loop"
            /\ UNCHANGED <<error, exitcode>>
    /\ UNCHANGED <<argv, fsys, args, game, filename, tempdir, out,
                   invocations, sleeps, iter, result>>

\* for tzxfile in tzx_files: print(f".{name}"); return 0
ListFiles ==
    /\ pc = "list"
    /\ out' = out \o [i \in 1..Len(tzx_files) |-> ListLine(tzx_files[i])]
    /\ pc' = "exited"
    /\ exitcode' = 0
    /\ UNCHANGED <<argv, fsys, args, scanned, tzx_files, game, filename,
                   tempdir, invocations, sleeps, iter, result, error>>

\* game = random.choice(tzx_files) and the two status lines
SelectGame ==
    /\ pc = "loop"
    /\ iter < MaxIter
    /\ \E i \in 1..Len(tzx_files) :
          /\ game' = tzx_files[i]
          /\ out' = out \o << [kind |-> "loading", text |-> tzx_files[i]],
                              [kind |-> "name", text |-> Basename(tzx_files[i])] >>
    /\ iter' = iter + 1
    /\ result' = "none"
    /\ pc' = "dispatch"
    /\ UNCHANGED <<argv, fsys, args, scanned, tzx_files, filename, tempdir,
                   invocations, sleeps, error, exitcode>>

\* if not args.noplay: classify the entry and call its player
Dispatch ==
    /\ pc = "dispatch"
    /\ IF args.noplay
       THEN pc' = "sep" /\ UNCHANGED <<filename, error, exitcode>>
       ELSE LET filetype == get_filetype(game)
            IN  IF filetype = "AttributeError"
                THEN Uncaught("AttributeError") /\ UNCHANGED filename
                ELSE IF filetype = "TZX"
                THEN /\ pc' = "play_tzx"
                     /\ filename' = game
                     /\ UNCHANGED <<error, exitcode>>
                ELSE IF filetype = "ZIP"
                THEN /\ pc' = "zip_enter"
                     /\ UNCHANGED <<filename, error, exitcode>>
                ELSE pc' = "sep" /\ UNCHANGED <<filename, error, exitcode>>
    /\ UNCHANGED <<argv, fsys, args, scanned, tzx_files, game, tempdir, out,
                   invocations, sleeps, iter, result>>

(***************************************************************************)
(* play_tzx_file()                                                         *)
(***************************************************************************)
\* what subprocess.run(tzxplay, check=True) can do
PlayerOutcomes == {"ok", "nonzero", "oserror"}

\* one call of play_tzx_file at position at; control returns to back, and an
\* exception other than CalledProcessError leaves through escape
play_tzx_file(at, back, escape) ==
    /\ pc = at
    /\ invocations' = Append(invocations, TzxplayArgs(filename, args))
    /\ \E rc \in PlayerOutcomes :
          /\ result' = rc
          /\ IF rc = "oserror"
             THEN IF escape = "exited"
                  THEN Uncaught("OSError")
                  ELSE pc' = escape /\ error' = "OSError" /\ UNCHANGED exitcode
             ELSE pc' = back /\ UNCHANGED <<error, exitcode>>
    /\ UNCHANGED <<argv, fsys, args, scanned, tzx_files, game, filename,
                   tempdir, out, sleeps, iter>>

\* play_tzx_file(game, args) called from the loop
PlayFromLoop == play_tzx_file("play_tzx", "sep", "exited")

\* play_tzx_file(game, args) called from play_zip_file
PlayFromZip == play_tzx_file("zip_play", "zip_exit", "zip_exit")

(***************************************************************************)
(* play_zip_file()                                                         *)
(***************************************************************************)
\* with tempfile.TemporaryDirectory() as tempdir
ZipEnter ==
    /\ pc = "zip_enter"
    /\ tempdir' = [exists |-> TRUE, files |-> <<>>]
    /\ pc' = "zip_extract"
    /\ UNCHANGED <<argv, fsys, args, scanned, tzx_files, game, filename, out,
                   invocations, sleeps, iter, result, error, exitcode>>

\* zipfile.ZipFile(filename).extractall(tempdir)
ZipExtract ==
    /\ pc = "zip_extract"
    /\ IF fsys.zip.corrupt
       THEN /\ error' = "BadZipFile"
            /\ result' = "badzip"
            /\ pc' = "zip_exit"
            /\ UNCHANGED tempdir
       ELSE /\ tempdir' = [tempdir EXCEPT !.files = fsys.zip.members]
            /\ pc' = "zip_scan"
            /\ UNCHANGED <<error, result>>
    /\ UNCHANGED <<argv, fsys, args, scanned, tzx_files, game, filename, out,
                   invocations, sleeps, iter, exitcode>>

\* scan the extracted files; report and return when none, else choose one
ZipScan ==
    /\ pc = "zip_scan"
    /\ LET found == get_tzx_from_path(fsys, tempdir, TempDir, args.match, FALSE)
       IN  IF found = <<>>
           THEN /\ out' = Append(out, [kind |-> "notzx", text |-> game])
                /\ result' = "notzx"
                /\ pc' = "zip_exit"
                /\ UNCHANGED filename
           ELSE /\ \E i \in 1..Len(found) : filename' = found[i]
                /\ pc' = "zip_play"
                /\ UNCHANGED <<out, result>>
    /\ UNCHANGED <<argv, fsys, args, scanned, tzx_files, game, tempdir,
                   invocations, sleeps, iter, error, exitcode>>

\* a directory removed by hand at the end of the body instead of by the
\* with block: an exception skips the removal
ZipExit_KeepOnError ==
    /\ pc = "zip_exit"
    /\ IF error # "none"
       THEN pc' = "exited" /\ exitcode' = 1 /\ UNCHANGED tempdir
       ELSE pc' = "sep" /\ tempdir' = NoTempDir /\ UNCHANGED exitcode
    /\ UNCHANGED <<argv, fsys, args, scanned, tzx_files, game, filename, out,
                   invocations, sleeps, iter, result, error>>

\* leaving the with block: the directory is removed, a pending exception
\* continues to main, which does not catch it
ZipExit ==
    /\ pc = "zip_exit"
    /\ tempdir' = NoTempDir
    /\ IF error # "none"
       THEN pc' = "exited" /\ exitcode' = 1
       ELSE pc' = "sep" /\ UNCHANGED exitcode
    /\ UNCHANGED <<argv, fsys, args, scanned, tzx_files, game, filename, out,
                   invocations, sleeps, iter, result, error>>

(***************************************************************************)
(* End of an iteration                                                     *)
(***************************************************************************)
\* print("-" * 80)
Separator ==
    /\ pc = "sep"
    /\ out' = Append(out, [kind |-> "separator", text |-> <<>>])
    /\ pc' = "sleep"
    /\ UNCHANGED <<argv, fsys, args, scanned, tzx_files, game, filename,
                   tempdir, invocations, sleeps, iter, result, error, exitcode>>

\* time.sleep(args.gap), which rejects a negative length; then --once breaks
Sleep ==
    /\ pc = "sleep"
    /\ IF args.gap < 0
       THEN Uncaught("ValueError") /\ UNCHANGED sleeps
       ELSE /\ sleeps' = Append(sleeps, args.gap)
            /\ IF args.once
               THEN pc' = "exited" /\ exitcode' = 0
               ELSE pc' = "loop" /\ UNCHANGED exitcode
            /\ UNCHANGED error
    /\ UNCHANGED <<argv, fsys, args, scanned, tzx_files, game, filename,
                   tempdir, out, invocations, iter, result>>

Next ==
    \/ ParseArgs
    \/ CheckFolder
    \/ ScanFolder
    \/ ListFiles
    \/ SelectGame
    \/ Dispatch
    \/ PlayFromLoop
    \/ PlayFromZip
    \/ ZipEnter
    \/ ZipExtract
    \/ ZipScan
    \/ ZipExit
    \/ Separator
    \/ Sleep

Spec == Init /\ [][Next]_vars

(***************************************************************************)
(* Properties                                                              *)
(***************************************************************************)
\* positions of main() inside the while loop, calls included
LoopPcs == {"loop", "dispatch", "play_tzx", "zip_enter", "zip_extract",
            "zip_scan", "zip_play", "zip_exit", "sep", "sleep"}

\* positions inside the with block of play_zip_file
InWithBlock == {"zip_extract", "zip_scan", "zip_play", "zip_exit"}

LinesOf(kind) == {i \in 1..Len(out) : out[i].kind = kind}

\* the rest of an iteration runs normally from the current position: the
\* separator follows, the sleep completes, and the loop goes on or, with
\* --once, main returns 0
IterationCompletes ==
    /\ error' = "none"
    /\ invocations' = invocations
    /\ pc = "zip_exit" => pc' = "sep"
    /\ pc = "sep" => pc' = "sleep" /\ Cardinality(LinesOf("separator"))' = iter
    /\ pc = "sleep" =>
          /\ Len(sleeps') = Len(sleeps) + 1
          /\ IF args.once THEN pc' = "exited" /\ exitcode' = 0 ELSE pc' = "loop"

\* C1: in every iteration in which the player exits non-zero, no error is
\* surfaced, the player is not invoked again, the separator and the gap sleep
\* follow, and without --once the next iteration begins.
C1_NonZeroExitNeverHalts ==
    [][(result = "nonzero" /\ pc \in {"zip_exit", "sep", "sleep"})
          => IterationCompletes]_vars

\* C2: an iteration whose archive is corrupt or holds no tape image skips the
\* item without invoking the player and without ending the process; the
\* separator and the gap sleep follow and the loop continues.
C2_ArchiveErrorNonFatal ==
    [][(result \in {"badzip", "notzx"} /\ pc \in {"zip_exit", "sep", "sleep"})
          => IterationCompletes /\ Len(invocations) < iter]_vars

\* C3: the temporary extraction directory exists only inside the with block
\* of play_zip_file; on every way out of the call, and so at the start of
\* every loop iteration, it does not exist.
C3_TempDirScoped ==
    /\ tempdir.exists => pc \in InWithBlock
    /\ tempdir.files # <<>> => tempdir.exists

\* C3 witness: play_zip_file was left by an error raised during playback
C3_Witness ==
    /\ pc = "exited"
    /\ error = "OSError"
    /\ Suffix(game) = EXT_ZIP
    /\ ~tempdir.exists

\* C4: with --noplay unset, a selected entry that is neither a tape image nor
\* an archive is skipped silently: no error, no player, no extraction, and
\* the iteration goes on to the separator.
C4_UnrecognizedSkipped ==
    [][(pc = "dispatch" /\ ~args.noplay /\ Suffix(game) \notin {EXT_TZX, EXT_ZIP})
          => /\ pc' = "sep"
             /\ error' = "none"
             /\ invocations' = invocations
             /\ tempdir' = tempdir]_vars

\* C5: with --once, without --list and with a non-empty catalog, the process
\* ends after exactly one iteration: one status-line pair, at most one player
\* invocation, and the gap sleep of that iteration done.
C5_OnceSingleIteration ==
    (pc = "exited" /\ args.once /\ ~args.list /\ tzx_files # <<>>)
        => /\ iter = 1
           /\ Cardinality(LinesOf("loading")) = 1
           /\ Cardinality(LinesOf("name")) = 1
           /\ Len(invocations) <= 1
           /\ Len(sleeps) = 1

\* nothing was listed, printed, played, extracted or slept
Idle ==
    /\ out = <<>>
    /\ invocations = <<>>
    /\ sleeps = <<>>
    /\ iter = 0
    /\ ~tempdir.exists

\* C6: a missing root folder ends the process non-zero before any scan, an
\* empty catalog ends it non-zero after the scan, in both cases with nothing
\* listed, printed, played or slept; the loop runs only on a non-empty catalog.
C6_ConfigErrorsFatal ==
    /\ (pc \notin {"parse", "main"} /\ ~Exists(fsys, Abspath(argv.folder)))
          => pc = "exited" /\ exitcode > 0 /\ ~scanned /\ Idle
    /\ (scanned /\ tzx_files = <<>>)
          => pc = "exited" /\ exitcode > 0 /\ Idle
    /\ pc \in LoopPcs \cup {"list"} => tzx_files # <<>>

\* C6 witness: --list on a folder that exists, holds files, and none qualifies
C6_Witness ==
    /\ pc = "exited"
    /\ scanned
    /\ tzx_files = <<>>
    /\ fsys.files # <<>>
    /\ args.list

\* C7: --list prints one line per catalog entry, each "." followed by the
\* root-relative path of a different entry, and exits zero with no status
\* line, no player, no extraction and no sleep, whatever --once, --noplay
\* and --gap are.
C7_ListOnly ==
    (pc = "exited" /\ args.list /\ tzx_files # <<>>)
        => /\ exitcode = 0
           /\ Len(out) = Len(tzx_files)
           /\ \A i \in 1..Len(out) :
                 /\ out[i].kind = "entry"
                 /\ \E k \in 1..Len(fsys.files) :
                       out[i].text = <<".">> \o fsys.files[k].rel
           /\ \A i, j \in 1..Len(out) : out[i].text = out[j].text => i = j
           /\ invocations = <<>>
           /\ sleeps = <<>>
           /\ iter = 0
           /\ ~tempdir.exists

\* C8: with --noplay the player is never invoked and no archive is extracted,
\* while every iteration emits its status pair, the separator and the gap
\* sleep, and iterations continue until --once ends the loop.
C8_NoPlay ==
    /\ [](args.noplay => /\ invocations = <<>>
                         /\ ~tempdir.exists
                         /\ Cardinality(LinesOf("loading")) = iter
                         /\ Cardinality(LinesOf("name")) = iter)
    /\ [][(args.noplay /\ pc \in {"dispatch", "sep", "sleep"})
             => /\ IterationCompletes
                /\ pc = "dispatch" => pc' = "sep"]_vars

\* C9: every player invocation is: tzxplay, --verbose, --sine iff soft,
\* --48k iff only48k, --stop iff not all, in that order, then the target
\* file as the last argument, and nothing else; one invocation per call.
C9_PlayerArgs ==
    /\ Len(invocations) <= iter
    /\ result \in PlayerOutcomes =>
          /\ Len(invocations) >= 1
          /\ Last(Last(invocations)) = filename
    /\ \A i \in 1..Len(invocations) :
          LET v == invocations[i]
              n == Len(v)
              Pos(o) == {k \in 1..n : v[k] = o}
              One(b) == IF b THEN 1 ELSE 0
          IN  /\ n = 3 + One(args.soft) + One(args.only48k) + One(~args.all)
              /\ v[1] = TZXPLAY
              /\ v[2] = OPT_VERBOSE
              /\ (Pos(OPT_SINE) # {}) = args.soft
              /\ (Pos(OPT_48K) # {}) = args.only48k
              /\ (Pos(OPT_STOP) # {}) = ~args.all
              /\ \A a \in Pos(OPT_SINE), b \in Pos(OPT_48K) \cup Pos(OPT_STOP) : a < b
              /\ \A a \in Pos(OPT_48K), b \in Pos(OPT_STOP) : a < b
              /\ \/ \E k \in 1..Len(tzx_files) : v[n] = tzx_files[k]
                 \/ \E k \in 1..Len(fsys.zip.members) :
                       v[n] = TempDir \o fsys.zip.members[k]

\* C9 witness: the player was invoked with all three optional flags present
C9_Witness ==
    /\ Len(invocations) >= 1
    /\ args.soft
    /\ args.only48k
    /\ ~args.all

\* C10: the gap is a non-negative integer whenever the loop is reached (a
\* malformed --gap ends the process with a usage error before any scan), so
\* no sleep fails.
C10_GapNonNegative ==
    /\ pc \in LoopPcs => args.gap >= 0
    /\ (argv.gap # NoGap /\ ~IsInt(argv.gap) /\ pc # "parse")
          => pc = "exited" /\ exitcode = 2 /\ ~scanned
    /\ error # "ValueError"

====
